---- MODULE Spec2Model ----
(***************************************************************************)
(* pwordgen: generatePassword (generator.ts) driven by the rejection       *)
(* sampler getSecureRandomInt (crypto.ts).                                  *)
(*                                                                         *)
(* A character is a UTF-16 code unit (an integer), a string is a sequence  *)
(* of code units.  A JavaScript number that may be fractional (length, max)*)
(* is a record [n, half] standing for n + 0.5 * half.  An optional field   *)
(* of the caller's options object is <<>> when absent, <<"u">> when        *)
(* supplied as undefined and <<"v", value>> when supplied with a value.    *)
(***************************************************************************)
EXTENDS Integers, Sequences, FiniteSets, TLC

(***************************************************************************)
(* Bounds of the model                                                     *)
(***************************************************************************)
\* longest password length explored with the free random source
MaxLen == 3
\* most rejected draws a working random source delivers during one call of
\* generatePassword or of getSecureRandomInt on its own
MaxRejects == 1
\* getSecureRandomInt is called with every max from 2 up to this one
MaxArg == 600

(***************************************************************************)
(* types.ts                                                                *)
(***************************************************************************)
Range(s) == {s[k] : k \in 1..Len(s)}

\* 'abcdefghijklmnopqrstuvwxyz'
lowercase == [k \in 1..26 |-> 96 + k]
\* 'ABCDEFGHIJKLMNOPQRSTUVWXYZ'
uppercase == [k \in 1..26 |-> 64 + k]
\* '0123456789'
digits == [k \in 1..10 |-> 47 + k]
\* '!@#$%^&*()_+-=[]{}|;:,.<>?'
symbols == <<33, 64, 35, 36, 37, 94, 38, 42, 40, 41, 95, 43, 45, 61,
             91, 93, 123, 125, 124, 59, 58, 44, 46, 60, 62, 63>>
\* 'il1Lo0O'
SIMILAR_CHARACTERS == <<105, 108, 49, 76, 111, 48, 79>>

CHARACTER_CLASSES ==
    [lowercase |-> lowercase, uppercase |-> uppercase,
     digits |-> digits, symbols |-> symbols]

\* the value of an array element or string index that does not exist
Undefined == -1

Num(k) == [n |-> k, half |-> FALSE]
Half(k) == [n |-> k, half |-> TRUE]

\* x < 1, x <= 0 and Number.isInteger(x) for a number x = n + 0.5 * half
LessThanOne(x) == x.n < 1
AtMostZero(x) == x.n < 0 \/ (x.n = 0 /\ ~x.half)
IsInteger(x) == ~x.half
\* k < x and k > x for an integer k
IntLess(k, x) == k < x.n \/ (k = x.n /\ x.half)
IntGreater(k, x) == k > x.n

Fields == {"length", "lowercase", "uppercase", "digits", "symbols", "custom",
           "excludeSimilar", "exclude", "requireEachSelectedClass"}

Absent == <<>>
Given(v) == <<"v", v>>

\* a ?? b
Nullish(f) == Len(f) < 2
OrElse(f, d) == IF Nullish(f) THEN d ELSE f[2]

(***************************************************************************)
(* generator.ts                                                            *)
(***************************************************************************)
normalizeOptions(options) ==
    [length |-> OrElse(options.length, Num(16)),
     lowercase |-> OrElse(options.lowercase, TRUE),
     uppercase |-> OrElse(options.uppercase, TRUE),
     digits |-> OrElse(options.digits, TRUE),
     symbols |-> OrElse(options.symbols, TRUE),
     custom |-> OrElse(options.custom, <<>>),
     excludeSimilar |-> OrElse(options.excludeSimilar, FALSE),
     exclude |-> OrElse(options.exclude, <<>>),
     requireEachSelectedClass |-> OrElse(options.requireEachSelectedClass, FALSE)]

\* str.includes(char) for a one-character string char
includes(str, char) == \E k \in 1..Len(str) : str[k] = char

\* chars.split('').filter(char => !excluded.includes(char)).join('')
FilterOut(chars, excluded) ==
    LET keep(char) == ~includes(excluded, char)
    IN  SelectSeq(chars, keep)

\* ApplyExclusions with the second filter skipped after the first ran
ApplyExclusionsElseIf(chars, options) ==
    IF options.excludeSimilar
    THEN FilterOut(chars, SIMILAR_CHARACTERS)
    ELSE IF options.exclude # <<>>
         THEN FilterOut(chars, options.exclude)
         ELSE chars

\* the two exclusion filters, each applied only when its option is truthy
ApplyExclusions(chars, options) ==
    LET afterSimilar == IF options.excludeSimilar
                        THEN FilterOut(chars, SIMILAR_CHARACTERS)
                        ELSE chars
    IN  IF options.exclude # <<>>
        THEN FilterOut(afterSimilar, options.exclude)
        ELSE afterSimilar

\* Dedup keeping the last occurrence of each character
DedupKeepLast(chars) ==
    LET positions == [k \in 1..Len(chars) |-> k]
        last(k) == \A j \in (k + 1)..Len(chars) : chars[j] # chars[k]
        kept == SelectSeq(positions, last)
    IN  [m \in 1..Len(kept) |-> chars[kept[m]]]

\* [...new Set(chars.split(''))].join(''): a Set keeps each value once, in
\* insertion order, so the characters that stay are the first occurrences
Dedup(chars) ==
    LET positions == [k \in 1..Len(chars) |-> k]
        first(k) == \A j \in 1..(k - 1) : chars[j] # chars[k]
        kept == SelectSeq(positions, first)
    IN  [m \in 1..Len(kept) |-> chars[kept[m]]]

buildCharacterPool(options) ==
    LET pool == (IF options.lowercase THEN CHARACTER_CLASSES.lowercase ELSE <<>>)
             \o (IF options.uppercase THEN CHARACTER_CLASSES.uppercase ELSE <<>>)
             \o (IF options.digits THEN CHARACTER_CLASSES.digits ELSE <<>>)
             \o (IF options.symbols THEN CHARACTER_CLASSES.symbols ELSE <<>>)
             \o (IF options.custom # <<>> THEN options.custom ELSE <<>>)
    IN  Dedup(ApplyExclusions(pool, options))

\* ClassEntry pushing the class also when the exclusions emptied it
ClassEntryKeepEmpty(selected, classChars, options) ==
    IF selected /\ Len(classChars) > 0
    THEN <<ApplyExclusions(classChars, options)>>
    ELSE <<>>

\* ClassEntry pushing the class as it is, exclusions not applied
ClassEntryUnfiltered(selected, classChars, options) ==
    IF selected /\ Len(classChars) > 0 THEN <<classChars>> ELSE <<>>

\* one block of getSelectedClasses: the class is pushed when it is selected
\* and keeps at least one character
ClassEntry(selected, classChars, options) ==
    IF selected
    THEN LET chars == ApplyExclusions(classChars, options)
         IN  IF Len(chars) > 0 THEN <<chars>> ELSE <<>>
    ELSE <<>>

\* getSelectedClasses with the block of custom moved to the front
getSelectedClassesCustomFirst(options) ==
       ClassEntry(options.custom # <<>>, options.custom, options)
    \o ClassEntry(options.lowercase, CHARACTER_CLASSES.lowercase, options)
    \o ClassEntry(options.uppercase, CHARACTER_CLASSES.uppercase, options)
    \o ClassEntry(options.digits, CHARACTER_CLASSES.digits, options)
    \o ClassEntry(options.symbols, CHARACTER_CLASSES.symbols, options)

getSelectedClasses(options) ==
       ClassEntry(options.lowercase, CHARACTER_CLASSES.lowercase, options)
    \o ClassEntry(options.uppercase, CHARACTER_CLASSES.uppercase, options)
    \o ClassEntry(options.digits, CHARACTER_CLASSES.digits, options)
    \o ClassEntry(options.symbols, CHARACTER_CLASSES.symbols, options)
    \o ClassEntry(options.custom # <<>>, options.custom, options)

ErrLength == "Password length must be at least 1"
ErrInteger == "Password length must be an integer"
ErrEmptyPool == "Character pool is empty - no characters available for password generation"
ErrClasses == "Cannot require each selected class"
ErrMax == "max must be a positive integer"
ErrAttempts == "Failed to generate unbiased random number after maximum attempts"
ErrNoSource == "No cryptographically secure random number generator available"
NoError == "none"

\* validateOptions without the Number.isInteger check
validateOptionsNoIntegerCheck(options) ==
    IF LessThanOne(options.length) THEN ErrLength
    ELSE IF Len(buildCharacterPool(options)) = 0 THEN ErrEmptyPool
    ELSE IF /\ options.requireEachSelectedClass
            /\ IntGreater(Len(getSelectedClasses(options)), options.length)
         THEN ErrClasses
    ELSE NoError

\* validateOptions without the check of the pool
validateOptionsNoPoolCheck(options) ==
    IF LessThanOne(options.length) THEN ErrLength
    ELSE IF ~IsInteger(options.length) THEN ErrInteger
    ELSE IF /\ options.requireEachSelectedClass
            /\ IntGreater(Len(getSelectedClasses(options)), options.length)
         THEN ErrClasses
    ELSE NoError

\* validateOptions without the check of the number of classes
validateOptionsNoClassCheck(options) ==
    IF LessThanOne(options.length) THEN ErrLength
    ELSE IF ~IsInteger(options.length) THEN ErrInteger
    ELSE IF Len(buildCharacterPool(options)) = 0 THEN ErrEmptyPool
    ELSE NoError

\* validateOptions with the Number.isInteger check made first
validateOptionsIntegerFirst(options) ==
    IF ~IsInteger(options.length) THEN ErrInteger
    ELSE IF LessThanOne(options.length) THEN ErrLength
    ELSE IF Len(buildCharacterPool(options)) = 0 THEN ErrEmptyPool
    ELSE IF /\ options.requireEachSelectedClass
            /\ IntGreater(Len(getSelectedClasses(options)), options.length)
         THEN ErrClasses
    ELSE NoError

\* validateOptions letting one class more than length pass
validateOptionsOneClassMore(options) ==
    IF LessThanOne(options.length) THEN ErrLength
    ELSE IF ~IsInteger(options.length) THEN ErrInteger
    ELSE IF Len(buildCharacterPool(options)) = 0 THEN ErrEmptyPool
    ELSE IF /\ options.requireEachSelectedClass
            /\ IntGreater(Len(getSelectedClasses(options)) - 1, options.length)
         THEN ErrClasses
    ELSE NoError

\* validateOptions looking at the pool as it is before the exclusions
validateOptionsUnfilteredPool(options) ==
    IF LessThanOne(options.length) THEN ErrLength
    ELSE IF ~IsInteger(options.length) THEN ErrInteger
    ELSE IF Len(buildCharacterPool([options EXCEPT !.excludeSimilar = FALSE,
                                                   !.exclude = <<>>])) = 0
         THEN ErrEmptyPool
    ELSE IF /\ options.requireEachSelectedClass
            /\ IntGreater(Len(getSelectedClasses(options)), options.length)
         THEN ErrClasses
    ELSE NoError

\* the error validateOptions throws, NoError when it returns
validateOptions(options) ==
    IF LessThanOne(options.length) THEN ErrLength
    ELSE IF ~IsInteger(options.length) THEN ErrInteger
    ELSE IF Len(buildCharacterPool(options)) = 0 THEN ErrEmptyPool
    ELSE IF /\ options.requireEachSelectedClass
            /\ IntGreater(Len(getSelectedClasses(options)), options.length)
         THEN ErrClasses
    ELSE NoError

(***************************************************************************)
(* utils.ts: the options are merged by object spread, so a field of the    *)
(* merged object stays as it was supplied: <<"u">> when the caller         *)
(* supplied undefined, <<"v", value>> otherwise                            *)
(***************************************************************************)
\* CHARACTER_CLASSES.similar of the types behind utils.ts: 'il1Lo0O'
similar == <<105, 108, 49, 76, 111, 48, 79>>

defaultOptions ==
    [length |-> Given(Num(16)), lowercase |-> Given(TRUE),
     uppercase |-> Given(TRUE), digits |-> Given(TRUE), symbols |-> Given(TRUE),
     custom |-> Given(<<>>), excludeSimilar |-> Given(FALSE),
     exclude |-> Given(<<>>), requireEachSelectedClass |-> Given(FALSE)]

\* { ...defaultOptions, ...overrides }: every own property of overrides,
\* undefined ones included, replaces the default
normalizeOptionsUtils(overrides) ==
    [f \in Fields |-> IF Len(overrides[f]) = 0 THEN defaultOptions[f]
                                               ELSE overrides[f]]

\* the truthiness of a boolean field and of a string field
TruthyFlag(f) == Len(f) = 2 /\ f[2]
TruthyString(f) == Len(f) = 2 /\ Len(f[2]) > 0

\* filterCharacters returning early whenever excludeSimilar is not set
filterCharactersSimilarOnly(chars, options) ==
    IF Len(chars) = 0 THEN <<>>
    ELSE IF ~TruthyFlag(options.excludeSimilar) THEN chars
    ELSE LET keep(char) == char \notin Range(similar)
         IN  SelectSeq(chars, keep)

\* filterCharacters(basePool, options)
filterCharacters(chars, options) ==
    IF Len(chars) = 0 THEN <<>>
    ELSE IF ~TruthyFlag(options.excludeSimilar) /\ ~TruthyString(options.exclude)
         THEN chars
    ELSE LET excludeSet ==
                 (IF TruthyFlag(options.excludeSimilar)
                  THEN Range(similar) ELSE {})
                 \cup (IF TruthyString(options.exclude)
                       THEN Range(options.exclude[2]) ELSE {})
             keep(char) == char \notin excludeSet
         IN  SelectSeq(chars, keep)

buildCharacterPoolUtils(options) ==
    LET basePool ==
               (IF TruthyFlag(options.lowercase) THEN lowercase ELSE <<>>)
            \o (IF TruthyFlag(options.uppercase) THEN uppercase ELSE <<>>)
            \o (IF TruthyFlag(options.digits) THEN digits ELSE <<>>)
            \o (IF TruthyFlag(options.symbols) THEN symbols ELSE <<>>)
            \o (IF TruthyString(options.custom) THEN options.custom[2] ELSE <<>>)
    IN  Dedup(filterCharacters(basePool, options))

(***************************************************************************)
(* entropy.ts.  An estimate is 0, NaN, or length * Math.log2(poolSize),    *)
(* kept as the pair of its factors; Math.log2(1) is 0                      *)
(***************************************************************************)
Zero == [kind |-> "zero", length |-> Num(0), poolSize |-> 0]
NaN == [kind |-> "NaN", length |-> Num(0), poolSize |-> 0]
Times(length, poolSize) ==
    IF poolSize = 1 THEN Zero
    ELSE [kind |-> "product", length |-> length, poolSize |-> poolSize]

\* estimateEntropyBits counting one character less when each selected class
\* is required
estimateEntropyBitsConstrained(options) ==
    LET normalizedOptions == normalizeOptionsUtils(options)
        pool == buildCharacterPoolUtils(normalizedOptions)
        poolSize == IF TruthyFlag(normalizedOptions.requireEachSelectedClass)
                    THEN Len(pool) - 1 ELSE Len(pool)
    IN  IF Len(normalizedOptions.length) = 2 /\ LessThanOne(normalizedOptions.length[2])
        THEN Zero
        ELSE IF Len(pool) = 0 THEN Zero
        ELSE IF Len(normalizedOptions.length) = 2
             THEN Times(normalizedOptions.length[2], poolSize)
             ELSE NaN

\* entropy.ts on utils.ts; undefined < 1 is false, undefined * x is NaN
estimateEntropyBits(options) ==
    LET normalizedOptions == normalizeOptionsUtils(options)
        pool == buildCharacterPoolUtils(normalizedOptions)
    IN  IF Len(normalizedOptions.length) = 2 /\ LessThanOne(normalizedOptions.length[2])
        THEN Zero
        ELSE IF Len(pool) = 0 THEN Zero
        ELSE IF Len(normalizedOptions.length) = 2
             THEN Times(normalizedOptions.length[2], Len(pool))
             ELSE NaN

\* the entropy.ts that carries its own copies of the two helpers
normalizeOptionsStandalone(options) ==
    [length |-> OrElse(options.length, Num(16)),
     lowercase |-> OrElse(options.lowercase, TRUE),
     uppercase |-> OrElse(options.uppercase, TRUE),
     digits |-> OrElse(options.digits, TRUE),
     symbols |-> OrElse(options.symbols, TRUE),
     custom |-> OrElse(options.custom, <<>>),
     excludeSimilar |-> OrElse(options.excludeSimilar, FALSE),
     exclude |-> OrElse(options.exclude, <<>>),
     requireEachSelectedClass |-> OrElse(options.requireEachSelectedClass, FALSE)]

buildCharacterPoolStandalone(options) ==
    LET pool == (IF options.lowercase THEN CHARACTER_CLASSES.lowercase ELSE <<>>)
             \o (IF options.uppercase THEN CHARACTER_CLASSES.uppercase ELSE <<>>)
             \o (IF options.digits THEN CHARACTER_CLASSES.digits ELSE <<>>)
             \o (IF options.symbols THEN CHARACTER_CLASSES.symbols ELSE <<>>)
             \o (IF options.custom # <<>> THEN options.custom ELSE <<>>)
        afterSimilar == IF options.excludeSimilar
                        THEN FilterOut(pool, SIMILAR_CHARACTERS)
                        ELSE pool
        afterExclude == IF options.exclude # <<>>
                        THEN FilterOut(afterSimilar, options.exclude)
                        ELSE afterSimilar
    IN  Dedup(afterExclude)

estimateEntropyBitsStandalone(options) ==
    LET normalizedOptions == normalizeOptionsStandalone(options)
        pool == buildCharacterPoolStandalone(normalizedOptions)
    IN  IF LessThanOne(normalizedOptions.length) THEN Zero
        ELSE IF Len(pool) = 0 THEN Zero
        ELSE Times(normalizedOptions.length, Len(pool))

(***************************************************************************)
(* crypto.ts: the arithmetic of getSecureRandomInt                         *)
(*                                                                         *)
(* JavaScript numbers are doubles, exact far beyond 2^32, while the        *)
(* bitwise operators work on 32-bit two's complement integers.  Every      *)
(* integer of this module stays within 32 bits: a double that can exceed   *)
(* 2^31-1 (256 ** bytesNeeded, maxValidValue) is kept as a pair [hi, lo]   *)
(* standing for hi * 65536 + lo, an int32 as the integer it denotes.       *)
(***************************************************************************)
maxAttempts == 1000

\* Math.ceil(Math.log2(max)) for an integer max >= 1
RECURSIVE CeilLog2(_)
CeilLog2(max) ==
    IF max <= 1 THEN 0 ELSE 1 + CeilLog2((max \div 2) + (max % 2))

bitsNeededOf(max) == CeilLog2(max)

\* Math.ceil(bitsNeeded / 8)
bytesNeededOf(max) == (bitsNeededOf(max) + 7) \div 8

\* <<quotient, remainder>> of 2^k divided by max (max >= 2): at once while
\* 2^k is below 2^31, by long division above
RECURSIVE DivPow2(_, _)
DivPow2(k, max) ==
    IF k <= 30 THEN <<(2 ^ k) \div max, (2 ^ k) % max>>
    ELSE LET d == DivPow2(k - 1, max)
         IN  IF d[2] >= max - d[2]
             THEN <<2 * d[1] + 1, d[2] - (max - d[2])>>
             ELSE <<2 * d[1], 2 * d[2]>>

\* Math.floor(256 ** bytesNeeded / max)
FloorPow256Div(bytesNeeded, max) == DivPow2(8 * bytesNeeded, max)[1]

Wide(hi, lo) == [hi |-> hi, lo |-> lo]

\* q * max as a double
WideTimes(q, max) ==
    LET low == q * (max % 65536)
    IN  Wide(q * (max \div 65536) + (low \div 65536), low % 65536)

\* w - 1 as a double
WideMinusOne(w) ==
    IF w.lo > 0 THEN Wide(w.hi, w.lo - 1) ELSE Wide(w.hi - 1, 65535)

\* maxValidValueOf keeping half as many multiples of max
maxValidValueOfHalved(max, bytesNeeded) ==
    WideMinusOne(WideTimes(FloorPow256Div(bytesNeeded, max) \div 2, max))

\* maxValidValueOf without the - 1
maxValidValueOfInclusive(max, bytesNeeded) ==
    WideTimes(FloorPow256Div(bytesNeeded, max), max)

\* Math.floor(256 ** bytesNeeded / max) * max - 1
maxValidValueOf(max, bytesNeeded) ==
    WideMinusOne(WideTimes(FloorPow256Div(bytesNeeded, max), max))

\* x <= w for an int32 x and a double w >= 0
LeqWide(x, w) ==
    \/ x < 0
    \/ (x \div 65536) < w.hi
    \/ ((x \div 65536) = w.hi /\ (x % 65536) <= w.lo)

\* x << 8 on int32: the low 24 bits move up, the top bit becomes the sign
ShiftLeft8(x) ==
    LET low24 == x % 16777216
    IN  IF low24 >= 8388608 THEN (low24 - 16777216) * 256 ELSE low24 * 256

\* a | b on the bits below 2^bits, for 0 <= a, b < 2^bits
RECURSIVE OrBits(_, _, _)
OrBits(a, b, bits) ==
    IF bits = 0 THEN 0
    ELSE (IF a % 2 = 1 \/ b % 2 = 1 THEN 1 ELSE 0)
         + 2 * OrBits(a \div 2, b \div 2, bits - 1)

\* x | byte on int32, for a byte in 0..255
BitOr(x, byte) == (x - (x % 256)) + OrBits(x % 256, byte, 8)

\* for (i = 0; i < bytesNeeded; i++) randomValue = (randomValue << 8) | randomBytes[i]
RECURSIVE BytesToInt(_, _, _)
BytesToInt(randomBytes, i, randomValue) ==
    IF i < Len(randomBytes)
    THEN BytesToInt(randomBytes, i + 1,
                    BitOr(ShiftLeft8(randomValue), randomBytes[i + 1]))
    ELSE randomValue

\* a % b of JavaScript for an int32 a and an integer b > 0: sign of a
Remainder(a, b) ==
    IF a >= 0 THEN a % b
    ELSE IF a % b = 0 THEN 0 ELSE (a % b) - b

\* randomValue <= maxValidValue
Accepted(randomValue, maxValidValue) == LeqWide(randomValue, maxValidValue)

(***************************************************************************)
(* generator.ts: password assembly between two requests for random bytes   *)
(***************************************************************************)
\* str[index] / array[index]: undefined outside the string
CharAt(str, index) ==
    IF index \in 0..(Len(str) - 1) THEN str[index + 1] ELSE Undefined

\* password.join(''): an undefined element contributes no character
Join(password) ==
    LET defined(char) == char # Undefined
    IN  SelectSeq(password, defined)

\* Swap that copies password[j] to password[i] and loses password[i]
SwapOverwrite(password, i, j) ==
    [password EXCEPT ![i + 1] = CharAt(password, j)]

\* [password[i], password[j]] = [password[j], password[i]]; an index j
\* outside the array reads undefined and writes a property, not an element
Swap(password, i, j) ==
    IF j \in 0..(Len(password) - 1)
    THEN [password EXCEPT ![i + 1] = password[j + 1], ![j + 1] = password[i + 1]]
    ELSE [password EXCEPT ![i + 1] = Undefined]

\* what the running call does next: ask the source for bytes for a sampler
\* call with the given max, return a value, or throw; ctx.log lists the
\* sampler calls made so far
Request(ctx, phase, i, password, max) ==
    [kind |-> "request", phase |-> phase, i |-> i, password |-> password,
     max |-> max, value |-> <<>>, error |-> NoError, log |-> ctx.log]
Return(ctx, phase, i, password, value) ==
    [kind |-> "return", phase |-> phase, i |-> i, password |-> password,
     max |-> 0, value |-> value, error |-> NoError, log |-> ctx.log]
Throw(ctx, phase, i, password, error) ==
    [kind |-> "throw", phase |-> phase, i |-> i, password |-> password,
     max |-> 0, value |-> <<>>, error |-> error, log |-> ctx.log]

\* the sampler is entered with max; its result is not known yet.  The
\* sampler calls are written down for the calls that are watched
Entered(ctx, phase, i, max) ==
    IF ctx.watched
    THEN [ctx EXCEPT !.log = Append(@, [phase |-> phase, i |-> i, max |-> max,
                                        index |-> <<>>])]
    ELSE ctx

\* the sampler call entered last returns randomIndex
Left(ctx, randomIndex) ==
    IF ctx.watched
    THEN [ctx EXCEPT !.log[Len(ctx.log)].index = <<randomIndex>>]
    ELSE ctx

RECURSIVE Proceed(_, _, _, _)
RECURSIVE Call(_, _, _, _, _)
RECURSIVE Resume(_, _, _, _, _)

\* Proceed with the fill loop started at 0 instead of selectedClasses.length
ProceedFillFromZero(ctx, phase, i, password) ==
    CASE phase = "classes" ->
           IF i < Len(ctx.selectedClasses)
           THEN Call(ctx, phase, i, password, Num(Len(ctx.selectedClasses[i + 1])))
           ELSE Proceed(ctx, "fill", 0, password)
      [] phase = "fill" ->
           IF IntLess(i, ctx.length)
           THEN Call(ctx, phase, i, password, Num(Len(ctx.pool)))
           ELSE Proceed(ctx, "shuffle", Len(password) - 1, password)
      [] phase = "shuffle" ->
           IF i > 0
           THEN Call(ctx, phase, i, password, Num(i + 1))
           ELSE Return(ctx, phase, i, password, Join(password))
      [] phase = "basic" ->
           IF IntLess(i, ctx.length)
           THEN Call(ctx, phase, i, password, Num(Len(ctx.pool)))
           ELSE Return(ctx, phase, i, password, Join(password))
      [] phase = "direct" -> Call(ctx, phase, i, password, ctx.max)

\* Proceed with the shuffle sampling j below i: getSecureRandomInt(i)
ProceedShuffleBelow(ctx, phase, i, password) ==
    CASE phase = "classes" ->
           IF i < Len(ctx.selectedClasses)
           THEN Call(ctx, phase, i, password, Num(Len(ctx.selectedClasses[i + 1])))
           ELSE Proceed(ctx, "fill", Len(ctx.selectedClasses), password)
      [] phase = "fill" ->
           IF IntLess(i, ctx.length)
           THEN Call(ctx, phase, i, password, Num(Len(ctx.pool)))
           ELSE Proceed(ctx, "shuffle", Len(password) - 1, password)
      [] phase = "shuffle" ->
           IF i > 0
           THEN Call(ctx, phase, i, password, Num(i))
           ELSE Return(ctx, phase, i, password, Join(password))
      [] phase = "basic" ->
           IF IntLess(i, ctx.length)
           THEN Call(ctx, phase, i, password, Num(Len(ctx.pool)))
           ELSE Return(ctx, phase, i, password, Join(password))
      [] phase = "direct" -> Call(ctx, phase, i, password, ctx.max)

\* the head of the loop the call is in; ctx holds pool, selectedClasses and
\* options.length; phase "direct" is getSecureRandomInt called on its own
Proceed(ctx, phase, i, password) ==
    CASE phase = "classes" ->
           IF i < Len(ctx.selectedClasses)
           THEN Call(ctx, phase, i, password, Num(Len(ctx.selectedClasses[i + 1])))
           ELSE Proceed(ctx, "fill", Len(ctx.selectedClasses), password)
      [] phase = "fill" ->
           IF IntLess(i, ctx.length)
           THEN Call(ctx, phase, i, password, Num(Len(ctx.pool)))
           ELSE Proceed(ctx, "shuffle", Len(password) - 1, password)
      [] phase = "shuffle" ->
           IF i > 0
           THEN Call(ctx, phase, i, password, Num(i + 1))
           ELSE Return(ctx, phase, i, password, Join(password))
      [] phase = "basic" ->
           IF IntLess(i, ctx.length)
           THEN Call(ctx, phase, i, password, Num(Len(ctx.pool)))
           ELSE Return(ctx, phase, i, password, Join(password))
      [] phase = "direct" -> Call(ctx, phase, i, password, ctx.max)

\* Call answering 0 to an invalid max instead of throwing
CallInvalidReturnsZero(ctx, phase, i, password, max) ==
    IF AtMostZero(max) \/ ~IsInteger(max)
    THEN Resume(Entered(ctx, phase, i, max), phase, i, password, 0)
    ELSE IF max.n = 1
         THEN Resume(Entered(ctx, phase, i, max), phase, i, password, 0)
         ELSE Request(Entered(ctx, phase, i, max), phase, i, password, max.n)

\* Call with the max === 1 shortcut returning 1
CallShortcutOne(ctx, phase, i, password, max) ==
    IF AtMostZero(max) \/ ~IsInteger(max)
    THEN Throw(Entered(ctx, phase, i, max), phase, i, password, ErrMax)
    ELSE IF max.n = 1
         THEN Resume(Entered(ctx, phase, i, max), phase, i, password, 1)
         ELSE Request(Entered(ctx, phase, i, max), phase, i, password, max.n)

\* getSecureRandomInt(max) up to its loop: the argument check and the
\* max === 1 shortcut
Call(ctx, phase, i, password, max) ==
    IF AtMostZero(max) \/ ~IsInteger(max)
    THEN Throw(Entered(ctx, phase, i, max), phase, i, password, ErrMax)
    ELSE IF max.n = 1
         THEN Resume(Entered(ctx, phase, i, max), phase, i, password, 0)
         ELSE Request(Entered(ctx, phase, i, max), phase, i, password, max.n)

\* Resume reading the pool from its end in the basic and fill loops
ResumeMirrored(ctx, phase, i, password, randomIndex) ==
    CASE phase = "classes" ->
           Proceed(Left(ctx, randomIndex), phase, i + 1,
                   Append(password, CharAt(ctx.selectedClasses[i + 1], randomIndex)))
      [] phase \in {"fill", "basic"} ->
           Proceed(Left(ctx, randomIndex), phase, i + 1,
                   Append(password,
                          CharAt(ctx.pool, Len(ctx.pool) - 1 - randomIndex)))
      [] phase = "shuffle" ->
           Proceed(Left(ctx, randomIndex), phase, i - 1,
                   Swap(password, i, randomIndex))
      [] phase = "direct" ->
           Return(Left(ctx, randomIndex), phase, i, password, randomIndex)

\* the caller's use of the sampled index, up to the next loop head
Resume(ctx, phase, i, password, randomIndex) ==
    CASE phase = "classes" ->
           Proceed(Left(ctx, randomIndex), phase, i + 1,
                   Append(password, CharAt(ctx.selectedClasses[i + 1], randomIndex)))
      [] phase \in {"fill", "basic"} ->
           Proceed(Left(ctx, randomIndex), phase, i + 1,
                   Append(password, CharAt(ctx.pool, randomIndex)))
      [] phase = "shuffle" ->
           Proceed(Left(ctx, randomIndex), phase, i - 1,
                   Swap(password, i, randomIndex))
      [] phase = "direct" ->
           Return(Left(ctx, randomIndex), phase, i, password, randomIndex)

(***************************************************************************)
(* The calls explored                                                      *)
(***************************************************************************)
\* "aa~" (a repeated character, one of lowercase, one of no class) and "1X"
Customs == {<<>>, <<97, 97, 126>>, <<49, 88>>}
\* "0123456789" empties the digits; "a..z~" empties lowercase and "aa~"
Excludes == {<<>>, digits, lowercase \o <<126>>}
Lengths == {Num(-1), Num(0), Half(0), Half(1)} \cup {Num(k) : k \in 1..MaxLen}

Options(len, lo, up, di, sy, cu, es, ex, re) ==
    [length |-> len, lowercase |-> lo, uppercase |-> up, digits |-> di,
     symbols |-> sy, custom |-> cu, excludeSimilar |-> es, exclude |-> ex,
     requireEachSelectedClass |-> re]

\* every field supplied
FullOptions ==
    {Options(Given(len), Given(lo), Given(up), Given(di), Given(sy), Given(cu),
             Given(es), Given(ex), Given(re)) :
        len \in Lengths, lo \in BOOLEAN, up \in BOOLEAN, di \in BOOLEAN,
        sy \in BOOLEAN, cu \in Customs, es \in BOOLEAN, ex \in Excludes,
        re \in BOOLEAN}

NoOptions == [f \in Fields |-> Absent]

\* some fields left out or supplied as undefined
PartialOptions ==
    {NoOptions,
     [NoOptions EXCEPT !.length = Given(Num(2))],
     [NoOptions EXCEPT !.length = <<"u">>, !.requireEachSelectedClass = Given(TRUE)],
     [NoOptions EXCEPT !.length = Given(Num(MaxLen)), !.symbols = <<"u">>,
                       !.digits = Given(FALSE), !.custom = Given(<<49, 88>>)]}

\* the options run against the mocked source that fills every array with 255
MockedOptions ==
    {o \in FullOptions :
        /\ o.length = Given(Num(MaxLen))
        /\ o.exclude = Given(<<>>)
        /\ o.excludeSimilar = Given(FALSE)}

MaxArgs ==
    {Num(-1), Num(0), Half(0), Half(1), Half(2)}
    \cup {Num(k) : k \in {1, 2, 3, 4, 10, 100, 255, 256, 257, 1000, 65536,
                          65537, 16777216, 16777217, 2147483647}}

\* the bytes a source can put in an array: a working generator any byte
\* (three representatives), the mocks of the tests one fixed byte
Bytes(src) ==
    CASE src = "csprng" -> {0, 1, 255}
      [] src = "fill255" -> {255}
      [] src = "fill0" -> {0}

Calls ==
         {[fn |-> "generatePassword", options |-> o, max |-> Num(0),
           source |-> "csprng"] : o \in FullOptions}
    \cup {[fn |-> "generatePassword", options |-> o, max |-> Num(0),
           source |-> src] : o \in PartialOptions, src \in {"fill0", "fill255"}}
    \cup {[fn |-> "generatePassword", options |-> o, max |-> Num(0),
           source |-> "fill255"] : o \in MockedOptions}
    \cup {[fn |-> "getSecureRandomInt", options |-> NoOptions, max |-> m,
           source |-> src] : m \in MaxArgs, src \in {"csprng", "fill255"}}

\* the byte sequences of a stubbed source: three bytes, repeated for ever
Tapes == [1..3 -> {0, 1, 255}]

\* the configurations run twice against a stubbed source
ReplayOptions ==
    {o \in FullOptions :
        /\ o.length \in {Given(Half(1)), Given(Num(2)), Given(Num(MaxLen))}
        /\ o.lowercase = Given(FALSE)
        /\ o.uppercase = Given(FALSE)
        /\ o.symbols = Given(FALSE)
        /\ o.excludeSimilar = Given(FALSE)
        /\ o.exclude = Given(<<>>)}

ReplayCalls ==
         {[fn |-> "generatePassword", options |-> o, max |-> Num(0),
           source |-> "stub", tape |-> t] : o \in ReplayOptions, t \in Tapes}
    \cup {[fn |-> "getSecureRandomInt", options |-> NoOptions, max |-> m,
           source |-> "stub", tape |-> t] : m \in MaxArgs, t \in Tapes}

\* a field of a partial configuration: left out, supplied as undefined, or
\* supplied with one of the values
Supplied(values) == {Absent, <<"u">>} \cup {Given(v) : v \in values}

\* the helpers exist three times: in generator.ts, in utils.ts and in the
\* entropy.ts that carries its own copies
Versions == {"generator", "utils", "standalone"}

HelperCall(fn, version, options) ==
    [fn |-> fn, options |-> options, max |-> Num(0), source |-> "csprng",
     version |-> version]

(***************************************************************************)
(* State                                                                   *)
(***************************************************************************)
VARIABLES
    call,               \* the call made: function, arguments, random source
    pc,                 \* "start", "sampling", "done" or "failed"
    normalizedOptions,  \* generatePassword: normalizedOptions
    pool,               \* generatePassword: pool
    selectedClasses,    \* generatePassword: selectedClasses
    phase,              \* the loop the call is in
    i,                  \* its loop variable
    password,           \* the password array
    max,                \* getSecureRandomInt: max
    bytesNeeded,        \* getSecureRandomInt: bytesNeeded
    maxValidValue,      \* getSecureRandomInt: maxValidValue
    attempts,           \* getSecureRandomInt: attempts
    bytesRequested,     \* number of bytes asked of getRandomBytes so far
    rejected,           \* number of draws rejected so far
    result,             \* the value returned
    error,              \* the message of the error thrown, NoError if none
    run,                \* 1 in the first run of the call, 2 when it is run again
    first,              \* how the first run ended, <<>> before
    origin,             \* the interfaces the bytes delivered so far came from
    samples             \* the sampler calls made so far, with their results,
                        \* for the calls that are watched

vars == <<call, pc, normalizedOptions, pool, selectedClasses, phase, i,
          password, max, bytesNeeded, maxValidValue, attempts, bytesRequested,
          rejected, result, error, run, first, origin, samples>>

Start(calls) ==
    /\ call \in calls
    /\ pc = "start"
    /\ normalizedOptions = normalizeOptions(NoOptions)
    /\ pool = <<>>
    /\ selectedClasses = <<>>
    /\ phase = "none"
    /\ i = 0
    /\ password = <<>>
    /\ max = 0
    /\ bytesNeeded = 0
    /\ maxValidValue = Wide(0, 0)
    /\ attempts = 0
    /\ bytesRequested = 0
    /\ rejected = 0
    /\ result = <<>>
    /\ error = NoError
    /\ run = 1
    /\ first = <<>>
    /\ origin = {}
    /\ samples = <<>>

Init == Start(Calls)

\* the interfaces getRandomBytes tries, in its order
Interfaces ==
    <<"crypto.getRandomValues", "globalThis.crypto.getRandomValues",
      "nodeCrypto.randomBytes">>

\* the interfaces that exist where the call runs; where the tests run,
\* crypto.getRandomValues does
Environment ==
    IF "env" \in DOMAIN call THEN call.env ELSE {Interfaces[1]}

\* Provider falling back on Math.random where no interface exists
ProviderWithFallback(env) ==
    IF Interfaces[1] \in env THEN Interfaces[1]
    ELSE IF Interfaces[2] \in env THEN Interfaces[2]
    ELSE IF Interfaces[3] \in env THEN Interfaces[3]
    ELSE "Math.random"

\* the branch getRandomBytes takes: the first interface that exists, "none"
\* when require('crypto') fails too and the function throws
Provider(env) ==
    IF Interfaces[1] \in env THEN Interfaces[1]
    ELSE IF Interfaces[2] \in env THEN Interfaces[2]
    ELSE IF Interfaces[3] \in env THEN Interfaces[3]
    ELSE "none"

\* getRandomBytes(length): the arrays the source can return now; a stubbed
\* source goes on in its sequence where the last request stopped
getRandomBytes(length) ==
    IF call.source = "stub"
    THEN {[k \in 1..length |->
              call.tape[((bytesRequested + k - 1) % Len(call.tape)) + 1]]}
    ELSE [1..length -> Bytes(call.source)]

\* whether the sampler calls of this call are written down in samples
Watched == "watched" \in DOMAIN call

Context == [pool |-> pool, selectedClasses |-> selectedClasses,
            length |-> normalizedOptions.length, max |-> call.max,
            log |-> samples, watched |-> Watched]

\* Continue with attempts kept from the sampler call before
ContinueKeepAttempts(next) ==
    /\ phase' = next.phase
    /\ i' = next.i
    /\ password' = next.password
    /\ samples' = next.log
    /\ IF next.kind = "request"
       THEN /\ pc' = "sampling"
            /\ max' = next.max
            /\ bytesNeeded' = bytesNeededOf(next.max)
            /\ maxValidValue' = maxValidValueOf(next.max, bytesNeededOf(next.max))
            /\ UNCHANGED <<attempts, result, error>>
       ELSE /\ pc' = IF next.kind = "return" THEN "done" ELSE "failed"
            /\ result' = next.value
            /\ error' = next.error
            /\ UNCHANGED <<max, bytesNeeded, maxValidValue, attempts>>

\* the call goes on as `next` says: it enters the sampler's loop, returns
\* or throws
Continue(next) ==
    /\ phase' = next.phase
    /\ i' = next.i
    /\ password' = next.password
    /\ samples' = next.log
    /\ IF next.kind = "request"
       THEN /\ pc' = "sampling"
            /\ max' = next.max
            /\ bytesNeeded' = bytesNeededOf(next.max)
            /\ maxValidValue' = maxValidValueOf(next.max, bytesNeededOf(next.max))
            /\ attempts' = 0
            /\ UNCHANGED <<result, error>>
       ELSE /\ pc' = IF next.kind = "return" THEN "done" ELSE "failed"
            /\ result' = next.value
            /\ error' = next.error
            /\ UNCHANGED <<max, bytesNeeded, maxValidValue, attempts>>

\* generatePassword up to its first request for random bytes
generatePassword ==
    /\ pc = "start"
    /\ call.fn = "generatePassword"
    /\ LET options == normalizeOptions(call.options)
           failure == validateOptions(options)
       IN  /\ normalizedOptions' = options
           /\ IF failure # NoError
              THEN /\ pc' = "failed"
                   /\ error' = failure
                   /\ UNCHANGED <<pool, selectedClasses, phase, i, password,
                                  max, bytesNeeded, maxValidValue, attempts,
                                  result, samples>>
              ELSE LET ctx == [pool |-> buildCharacterPool(options),
                               selectedClasses |->
                                   IF options.requireEachSelectedClass
                                   THEN getSelectedClasses(options) ELSE <<>>,
                               length |-> options.length, max |-> call.max,
                               log |-> <<>>, watched |-> Watched]
                   IN  /\ pool' = ctx.pool
                       /\ selectedClasses' = ctx.selectedClasses
                       /\ Continue(Proceed(ctx,
                              IF options.requireEachSelectedClass
                              THEN "classes" ELSE "basic", 0, <<>>))
    /\ UNCHANGED <<call, bytesRequested, rejected, run, first, origin>>

\* getSecureRandomInt called on its own, up to its first request for bytes
getSecureRandomInt ==
    /\ pc = "start"
    /\ call.fn = "getSecureRandomInt"
    /\ Continue(Proceed([Context EXCEPT !.log = <<>>], "direct", 0, <<>>))
    /\ UNCHANGED <<call, normalizedOptions, pool, selectedClasses,
                   bytesRequested, rejected, run, first, origin>>

\* one turn of the sampler's loop: getRandomBytes(bytesNeeded), which
\* throws where no interface exists, the bytes put together, then the value
\* accepted (the call goes on with randomValue % max) or rejected
\* (attempts++)
Attempt ==
    /\ pc = "sampling"
    /\ attempts < maxAttempts
    /\ IF Provider(Environment) = "none"
       THEN /\ pc' = "failed"
            /\ error' = ErrNoSource
            /\ UNCHANGED <<phase, i, password, max, bytesNeeded, maxValidValue,
                           attempts, rejected, result, origin, samples>>
       ELSE /\ \E randomBytes \in getRandomBytes(bytesNeeded) :
                 \E randomValue \in {BytesToInt(randomBytes, 0, 0)} :
                     IF Accepted(randomValue, maxValidValue)
                     THEN /\ Continue(Resume(Context, phase, i, password,
                                             Remainder(randomValue, max)))
                          /\ UNCHANGED rejected
                     ELSE /\ call.source = "csprng" => rejected < MaxRejects
                          /\ attempts' = attempts + 1
                          /\ rejected' = rejected + 1
                          /\ UNCHANGED <<pc, phase, i, password, max,
                                         bytesNeeded, maxValidValue, result,
                                         error, samples>>
            /\ origin' = origin \cup {Provider(Environment)}
    /\ bytesRequested' = bytesRequested + bytesNeeded
    /\ UNCHANGED <<call, normalizedOptions, pool, selectedClasses, run, first>>

\* the caller catching the sampler's error and returning what it has
ExhaustedReturnsPartial ==
    /\ pc = "sampling"
    /\ attempts >= maxAttempts
    /\ pc' = "done"
    /\ result' = Join(password)
    /\ UNCHANGED <<call, normalizedOptions, pool, selectedClasses, phase, i,
                   password, max, bytesNeeded, maxValidValue, attempts,
                   bytesRequested, rejected, error, run, first, origin,
                   samples>>

\* the loop giving up by returning 0 instead of throwing
ExhaustedReturnsZero ==
    /\ pc = "sampling"
    /\ attempts >= maxAttempts
    /\ pc' = "done"
    /\ result' = 0
    /\ UNCHANGED <<call, normalizedOptions, pool, selectedClasses, phase, i,
                   password, max, bytesNeeded, maxValidValue, attempts,
                   bytesRequested, rejected, error, run, first, origin,
                   samples>>

\* the loop ends without an accepted value: the sampler throws
Exhausted ==
    /\ pc = "sampling"
    /\ attempts >= maxAttempts
    /\ pc' = "failed"
    /\ error' = ErrAttempts
    /\ UNCHANGED <<call, normalizedOptions, pool, selectedClasses, phase, i,
                   password, max, bytesNeeded, maxValidValue, attempts,
                   bytesRequested, rejected, result, run, first, origin,
                   samples>>

Next ==
    \/ generatePassword
    \/ getSecureRandomInt
    \/ Attempt
    \/ Exhausted

Spec == Init /\ [][Next]_vars

\* normalizeOptions called on its own; the result is kept field by field as
\* <<"v", value>>, or <<"u">> for a field that is undefined
normalizeOptionsCall ==
    /\ pc = "start"
    /\ call.fn = "normalizeOptions"
    /\ result' =
          CASE call.version = "generator" ->
                 [f \in Fields |-> Given(normalizeOptions(call.options)[f])]
            [] call.version = "standalone" ->
                 [f \in Fields |-> Given(normalizeOptionsStandalone(call.options)[f])]
            [] call.version = "utils" -> normalizeOptionsUtils(call.options)
    /\ pc' = "done"
    /\ UNCHANGED <<call, normalizedOptions, pool, selectedClasses, phase, i,
                   password, max, bytesNeeded, maxValidValue, attempts,
                   bytesRequested, rejected, error, run, first, origin,
                   samples>>

\* buildCharacterPool called on a normalized configuration
buildCharacterPoolCall ==
    /\ pc = "start"
    /\ call.fn = "buildCharacterPool"
    /\ result' =
          CASE call.version = "generator" ->
                 buildCharacterPool(normalizeOptions(call.options))
            [] call.version = "standalone" ->
                 buildCharacterPoolStandalone(normalizeOptionsStandalone(call.options))
            [] call.version = "utils" ->
                 buildCharacterPoolUtils(normalizeOptionsUtils(call.options))
    /\ pc' = "done"
    /\ UNCHANGED <<call, normalizedOptions, pool, selectedClasses, phase, i,
                   password, max, bytesNeeded, maxValidValue, attempts,
                   bytesRequested, rejected, error, run, first, origin,
                   samples>>

estimateEntropyBitsCall ==
    /\ pc = "start"
    /\ call.fn = "estimateEntropyBits"
    /\ result' = IF call.version = "utils"
                 THEN estimateEntropyBits(call.options)
                 ELSE estimateEntropyBitsStandalone(call.options)
    /\ pc' = "done"
    /\ UNCHANGED <<call, normalizedOptions, pool, selectedClasses, phase, i,
                   password, max, bytesNeeded, maxValidValue, attempts,
                   bytesRequested, rejected, error, run, first, origin,
                   samples>>

\* normalizeOptions and estimateEntropyBits on partial configurations,
\* buildCharacterPool on configurations with every field defined
HelperInit ==
    \/ \E len \in Supplied({Num(0), Half(0), Half(1), Num(2)}),
          lo \in Supplied({FALSE}), up \in {Absent, Given(FALSE)},
          di \in Supplied({FALSE}), sy \in {Given(TRUE), Given(FALSE)},
          cu \in Supplied({<<97, 97, 126>>, <<49, 88>>}),
          es \in Supplied({TRUE}), ex \in Supplied({digits}),
          re \in Supplied({TRUE}),
          fn \in {"normalizeOptions", "estimateEntropyBits"},
          version \in Versions :
            /\ fn = "estimateEntropyBits" => version # "generator"
            /\ Start({HelperCall(fn, version,
                                 Options(len, lo, up, di, sy, cu, es, ex, re))})
    \/ \E lo \in BOOLEAN, up \in BOOLEAN, di \in BOOLEAN, sy \in BOOLEAN,
          cu \in Customs, es \in BOOLEAN, ex \in Excludes, re \in BOOLEAN,
          version \in Versions :
            Start({HelperCall("buildCharacterPool", version,
                              Options(Given(Num(2)), Given(lo), Given(up),
                                      Given(di), Given(sy), Given(cu),
                                      Given(es), Given(ex), Given(re)))})

HelperNext ==
    \/ normalizeOptionsCall
    \/ buildCharacterPoolCall
    \/ estimateEntropyBitsCall

HelperSpec == HelperInit /\ [][HelperNext]_vars

\* the same call made again with the stub put back at the start of its
\* sequence; whatever the first run left behind is still there
Rerun ==
    /\ pc \in {"done", "failed"}
    /\ run = 1
    /\ run' = 2
    /\ first' = [pc |-> pc, result |-> result, error |-> error,
                 bytesRequested |-> bytesRequested]
    /\ pc' = "start"
    /\ bytesRequested' = 0
    /\ rejected' = 0
    /\ origin' = {}
    /\ UNCHANGED <<call, normalizedOptions, pool, selectedClasses, phase, i,
                   password, max, bytesNeeded, maxValidValue, attempts,
                   result, error, samples>>

ReplayInit == Start(ReplayCalls)

ReplayNext == Next \/ Rerun

ReplaySpec == ReplayInit /\ [][ReplayNext]_vars

\* calls made where some, all or none of the three interfaces exist
SourceCalls ==
         {[fn |-> "generatePassword", options |-> o, max |-> Num(0),
           source |-> src, env |-> e] :
              o \in PartialOptions, src \in {"fill0", "fill255"},
              e \in SUBSET Range(Interfaces)}
    \cup {[fn |-> "getSecureRandomInt", options |-> NoOptions, max |-> m,
           source |-> src, env |-> e] :
              m \in MaxArgs, src \in {"csprng", "fill255"},
              e \in SUBSET Range(Interfaces)}

SourceInit == Start(SourceCalls)

SourceSpec == SourceInit /\ [][Next]_vars

\* getSecureRandomInt with every max up to MaxArg and the arguments of
\* MaxArgs, against the mocks; the source that fills with 0 has every draw
\* accepted
ThresholdCalls ==
         {[fn |-> "getSecureRandomInt", options |-> NoOptions, max |-> m,
           source |-> "fill0"] :
              m \in {Num(k) : k \in 2..MaxArg} \cup MaxArgs}
    \cup {[fn |-> "getSecureRandomInt", options |-> NoOptions, max |-> m,
           source |-> "fill255"] : m \in MaxArgs}
    \cup {[fn |-> "generatePassword", options |-> o, max |-> Num(0),
           source |-> src] : o \in PartialOptions, src \in {"fill0", "fill255"}}

ThresholdInit == Start(ThresholdCalls)

ThresholdSpec == ThresholdInit /\ [][Next]_vars

\* the assembly of the password watched: generatePassword with a working
\* source on the configurations of lowercase, digits and custom, and with
\* the mocks on those of all five classes
AssemblyLengths == {Num(0), Half(1)} \cup {Num(k) : k \in 1..MaxLen}

\* every class selected, custom "1X", one position more than classes
AllClasses ==
    Options(Given(Num(6)), Given(TRUE), Given(TRUE), Given(TRUE), Given(TRUE),
            Given(<<49, 88>>), Given(FALSE), Given(<<>>), Given(TRUE))

AssemblyCalls ==
         {[fn |-> "generatePassword", options |-> o, max |-> Num(0),
           source |-> "csprng", watched |-> TRUE] :
              o \in {f \in FullOptions : /\ f.symbols = Given(FALSE)
                                         /\ f.uppercase = Given(FALSE)
                                         /\ f.length[2] \in AssemblyLengths}}
    \cup {[fn |-> "generatePassword", options |-> AllClasses, max |-> Num(0),
           source |-> "fill0", watched |-> TRUE]}
    \cup {[fn |-> "generatePassword", options |-> o, max |-> Num(0),
           source |-> "fill255", watched |-> TRUE] :
              o \in {f \in MockedOptions : f.custom = Given(<<49, 88>>)}}
    \cup {[fn |-> "generatePassword", options |-> o, max |-> Num(0),
           source |-> src, watched |-> TRUE] :
              o \in PartialOptions, src \in {"fill0", "fill255"}}
    \cup {[fn |-> "getSecureRandomInt", options |-> NoOptions, max |-> m,
           source |-> "csprng", watched |-> TRUE] : m \in MaxArgs}

AssemblyInit == Start(AssemblyCalls)

AssemblySpec == AssemblyInit /\ [][Next]_vars

\* validation on every configuration; the source that fills with 0 lets
\* the calls that pass run to their end
ValidationCalls ==
         {[fn |-> "generatePassword", options |-> o, max |-> Num(0),
           source |-> "fill0"] : o \in FullOptions}
    \cup {[fn |-> "generatePassword", options |-> o, max |-> Num(0),
           source |-> "fill255"] : o \in PartialOptions}
    \cup {[fn |-> "getSecureRandomInt", options |-> NoOptions, max |-> m,
           source |-> "fill255"] : m \in MaxArgs}

ValidationInit == Start(ValidationCalls)

ValidationSpec == ValidationInit /\ [][Next]_vars

\* the calls of the tests that replace the random source by a mock
MockedInit ==
    /\ Init
    /\ call.source # "csprng"
    /\ call.options \in PartialOptions

\* once in the sampler's loop the call takes the next turn of the loop
MockedSpec ==
    MockedInit /\ [][Next]_vars /\ WF_vars(Attempt) /\ WF_vars(Exhausted)

(***************************************************************************)
(* What the claims speak of, stated on the configuration itself            *)
(***************************************************************************)
\* the configuration of the call, defaults applied
Config == normalizeOptions(call.options)

ClassNames == <<"lowercase", "uppercase", "digits", "symbols", "custom">>

\* the characters of a class, {} when the class is not selected
ClassChars(o, name) ==
    CASE name = "lowercase" -> IF o.lowercase THEN Range(lowercase) ELSE {}
      [] name = "uppercase" -> IF o.uppercase THEN Range(uppercase) ELSE {}
      [] name = "digits" -> IF o.digits THEN Range(digits) ELSE {}
      [] name = "symbols" -> IF o.symbols THEN Range(symbols) ELSE {}
      [] name = "custom" -> Range(o.custom)

ExcludedChars(o) ==
    (IF o.excludeSimilar THEN Range(SIMILAR_CHARACTERS) ELSE {}) \cup Range(o.exclude)

\* union of the selected classes and custom, minus the exclusions
ConfiguredPool(o) ==
    UNION {ClassChars(o, ClassNames[k]) : k \in 1..5} \ ExcludedChars(o)

\* the selected classes that keep a character after the exclusions
RemainingClasses(o) ==
    {k \in 1..5 : ClassChars(o, ClassNames[k]) \ ExcludedChars(o) # {}}

ValidLength(o) == IsInteger(o.length) /\ o.length.n >= 1

ValidConfiguration(o) ==
    /\ ValidLength(o)
    /\ ConfiguredPool(o) # {}
    /\ o.requireEachSelectedClass => Cardinality(RemainingClasses(o)) <= o.length.n

Generating == call.fn = "generatePassword"
Sampling == call.fn = "getSecureRandomInt"
Returned == pc = "done"
Failed == pc = "failed"

C2_AlphabetInvariant ==
    (Generating /\ Returned)
        => \A k \in 1..Len(result) : result[k] \in ConfiguredPool(Config)

C2_Witness ==
    /\ Generating /\ Returned
    /\ Config.requireEachSelectedClass
    /\ Config.custom = <<97, 97, 126>>
    /\ Config.exclude = digits
    /\ Config.excludeSimilar
    /\ 126 \in Range(result)
    /\ Len(result) = 3

\* C3: a returned password holds no character of exclude and, when
\* excludeSimilar is set, no character of 'il1Lo0O'.
C3_ExclusionInvariant ==
    (Generating /\ Returned)
        => \A k \in 1..Len(result) :
              /\ ~includes(Config.exclude, result[k])
              /\ Config.excludeSimilar => ~includes(SIMILAR_CHARACTERS, result[k])

C3_Witness ==
    /\ Generating /\ Returned
    /\ Config.excludeSimilar
    /\ Config.exclude = digits
    /\ Config.custom = <<49, 88>>
    /\ Config.digits
    /\ 88 \in Range(result)

\* C4 as claimed: with requireEachSelectedClass the password holds a
\* character of every class whose toggle is true and of custom when custom
\* is not empty, whatever exclude and excludeSimilar are.
C4_EachSelectedClass ==
    (Generating /\ Returned /\ Config.requireEachSelectedClass)
        => \A k \in 1..5 :
              ClassChars(Config, ClassNames[k]) # {}
                  => Range(result) \cap ClassChars(Config, ClassNames[k]) # {}

\* C4 amended: with requireEachSelectedClass the password holds a character
\* of every selected class that keeps a character after the exclusions.
C4_EachRemainingClass ==
    (Generating /\ Returned /\ Config.requireEachSelectedClass)
        => \A k \in RemainingClasses(Config) :
              Range(result) \cap
                  (ClassChars(Config, ClassNames[k]) \ ExcludedChars(Config)) # {}

C4_Witness ==
    /\ Generating /\ Returned
    /\ Config.requireEachSelectedClass
    /\ Config.digits /\ Config.exclude = digits
    /\ Cardinality(RemainingClasses(Config)) = 3
    /\ Len(result) = 3

\* C5: whenever getSecureRandomInt(max) returns, the result r is an
\* integer with 0 <= r < max, for every max and every bytes drawn.
C5_ResultInRange ==
    (Sampling /\ Returned) => (0 <= result /\ result < call.max.n)

\* the draws tallied for a sampler call: every byte when one byte is drawn,
\* else the sequences over five bytes (least, greatest, around the sign bit)
TallyBytes(n) ==
    IF n = 1 THEN [k \in 1..256 |-> k - 1] ELSE <<0, 1, 127, 128, 255>>

TallyDraws(n) ==
    LET bytes == TallyBytes(n)
    IN  [k \in 1..(Len(bytes) ^ n) |->
            [j \in 1..n |-> bytes[(((k - 1) \div (Len(bytes) ^ (n - j))) % Len(bytes)) + 1]]]

\* C6: the sampler is uniform over the accepted draws: each result r in
\* [0, max) is produced by the same number of accepted draws, namely
\* floor(256^bytesNeeded / max), which is at least 1.  Where all draws are
\* tallied (one byte) the number is met exactly; where only some are, no
\* result may be produced more often than that.
C6_UniformOverAccepted ==
    (Sampling /\ pc = "sampling" /\ attempts = 0)
        => LET draws == TallyDraws(bytesNeeded)
               value == [k \in 1..Len(draws) |-> BytesToInt(draws[k], 0, 0)]
               accepted == {k \in 1..Len(draws) : Accepted(value[k], maxValidValue)}
               outcome == [k \in 1..Len(draws) |-> Remainder(value[k], max)]
               producing(r) == {k \in accepted : outcome[k] = r}
               share == FloorPow256Div(bytesNeeded, max)
           IN  /\ share >= 1
               /\ \A k \in accepted :
                     (0 <= outcome[k] /\ outcome[k] < max)
                         => Cardinality(producing(outcome[k])) <= share
               /\ bytesNeeded = 1
                     => \A r \in 0..(max - 1) : Cardinality(producing(r)) = share

\* C7: generatePassword fails with an invalid-length error and returns no
\* password whenever length is below 1 or not an integer.
C7_InvalidLengthFails ==
    (Generating /\ pc # "start" /\ ~ValidLength(Config))
        => /\ Failed
           /\ error \in {ErrLength, ErrInteger}
           /\ result = <<>>

C7_Witness ==
    /\ Generating /\ Failed
    /\ Config.length = Half(1)
    /\ error = ErrInteger
    /\ ConfiguredPool(Config) # {}

\* C8: with a valid length, generatePassword fails with the empty-pool error
\* whenever the pool is empty after class selection and exclusions, and it
\* returns a password only when the pool is not empty.
C8_EmptyPoolFails ==
    (Generating /\ pc # "start" /\ ValidLength(Config))
        => /\ ConfiguredPool(Config) = {} => (Failed /\ error = ErrEmptyPool)
           /\ Returned => ConfiguredPool(Config) # {}

C8_Witness ==
    /\ Generating /\ Failed
    /\ error = ErrEmptyPool
    /\ Config.lowercase
    /\ Config.custom = <<97, 97, 126>>
    /\ Config.exclude = lowercase \o <<126>>

\* C9: with a valid length and a non-empty pool, generatePassword fails with
\* the insufficient-length error if and only if requireEachSelectedClass is
\* set and more selected classes stay non-empty after the exclusions than
\* length allows; classes emptied by the exclusions do not count.
C9_InsufficientLength ==
    (Generating /\ pc # "start" /\ ValidLength(Config) /\ ConfiguredPool(Config) # {})
        => /\ error = ErrClasses
                <=> /\ Config.requireEachSelectedClass
                    /\ Cardinality(RemainingClasses(Config)) > Config.length.n
           /\ error = ErrClasses => Failed

C9_Witness ==
    /\ Generating /\ Failed
    /\ error = ErrClasses
    /\ Config.digits /\ Config.exclude = digits
    /\ Cardinality(RemainingClasses(Config)) = Config.length.n + 1

\* C10: validation precedes randomness: a call that fails with a validation
\* error has requested no random byte, and bytes are requested only once
\* every validation check has passed.
C10_ValidationBeforeRandomness ==
    Generating
        => /\ error \in {ErrLength, ErrInteger, ErrEmptyPool, ErrClasses}
                => bytesRequested = 0
           /\ bytesRequested > 0 => ValidConfiguration(Config)

C10_Witness ==
    /\ Generating /\ Failed
    /\ error = ErrClasses
    /\ Config.length = Num(2)
    /\ bytesRequested = 0

\* the mocked source of the tests answers every request with bytes the
\* sampler rejects: all bits set, and 256^bytesNeeded no multiple of max
AllRejected ==
    /\ Sampling
    /\ call.source = "fill255"
    /\ IsInteger(call.max)
    /\ call.max.n \in 2..16777216
    /\ (256 ^ bytesNeededOf(call.max.n)) % call.max.n # 0

\* C11: the rejection loop of getSecureRandomInt is bounded: when every draw
\* is rejected the sampler asks for bytes 1000 times and then fails with the
\* exhaustion error; no call stays in the loop forever, and a value is
\* returned only from an accepted draw.
C11_BoundedRejection ==
    /\ [](attempts <= 1000)
    /\ [](error = ErrAttempts => (Failed /\ attempts = 1000 /\ result = <<>>))
    /\ (AllRejected /\ pc = "sampling")
          ~> (Failed /\ error = ErrAttempts /\ bytesRequested = 1000 * bytesNeeded)
    /\ [](AllRejected => ~Returned)
    /\ (pc = "sampling") ~> (pc \in {"done", "failed"})

C11_Witness ==
    /\ AllRejected
    /\ Failed /\ error = ErrAttempts
    /\ call.max = Num(65537)
    /\ bytesRequested = 3000

\* C12: getSecureRandomInt(max) fails with 'max must be a positive integer'
\* for every max that is at most 0 or not an integer, and has then requested
\* no random byte.
C12_InvalidMaxFails ==
    (Sampling /\ pc # "start" /\ (call.max.half \/ call.max.n <= 0))
        => /\ Failed
           /\ error = ErrMax
           /\ result = <<>>
           /\ bytesRequested = 0

C12_Witness ==
    /\ Sampling /\ Failed
    /\ call.max = Half(1)
    /\ error = ErrMax
    /\ bytesRequested = 0

\* C13: getSecureRandomInt(1) returns 0 and requests no byte; so
\* generatePassword in basic mode with a pool of exactly one character
\* returns that character length times and requests no byte.
C13_MaxOneNoBytes ==
    /\ (Sampling /\ pc # "start" /\ call.max = Num(1))
          => (Returned /\ result = 0 /\ bytesRequested = 0)
    /\ (/\ Generating /\ pc # "start"
        /\ ValidLength(Config)
        /\ ~Config.requireEachSelectedClass
        /\ Cardinality(ConfiguredPool(Config)) = 1)
          => /\ Returned
             /\ bytesRequested = 0
             /\ Len(result) = Config.length.n
             /\ Range(result) = ConfiguredPool(Config)

C13_Witness ==
    /\ Generating /\ Returned
    /\ ~Config.requireEachSelectedClass
    /\ Config.custom = <<49, 88>>
    /\ ConfiguredPool(Config) = {88}
    /\ result = <<88, 88, 88>>
    /\ bytesRequested = 0

\* C14: determinism under fixed randomness: a call of getSecureRandomInt or
\* of generatePassword made a second time with the same argument and fed the
\* same byte sequence ends as the first did, with the same value or the same
\* error and the same number of bytes requested; nothing the first run left
\* behind changes the second.
C14_Determinism ==
    (run = 2 /\ pc \in {"done", "failed"})
        => /\ pc = first.pc
           /\ error = first.error
           /\ bytesRequested = first.bytesRequested
           /\ Returned => result = first.result

C14_Witness ==
    /\ run = 2
    /\ Generating /\ Returned
    /\ Config.requireEachSelectedClass
    /\ Len(result) = 3
    /\ rejected = 2
    /\ bytesRequested = 7
    /\ result = first.result

Estimating == call.fn = "estimateEntropyBits"

\* C15 as claimed: estimateEntropyBits never fails for any partial
\* configuration; it returns 0 when the length of the configuration with
\* the defaults applied is below 1 or its pool is empty, and else that
\* length times log2 of the number of distinct characters of the pool.
C15_EntropyEstimate ==
    (Estimating /\ pc # "start")
        => /\ Returned /\ error = NoError
           /\ result = IF Config.length.n < 1 \/ ConfiguredPool(Config) = {}
                       THEN Zero
                       ELSE Times(Config.length, Cardinality(ConfiguredPool(Config)))

Normalizing == call.fn = "normalizeOptions"

\* the defaults the claims name
Defaults ==
    [length |-> Num(16), lowercase |-> TRUE, uppercase |-> TRUE,
     digits |-> TRUE, symbols |-> TRUE, custom |-> <<>>,
     excludeSimilar |-> FALSE, exclude |-> <<>>,
     requireEachSelectedClass |-> FALSE]

\* C16 as claimed: for every partial configuration, fields supplied as
\* undefined included, every field of the normalized configuration is
\* defined: a supplied defined value is kept, every other field takes its
\* default.
C16_NormalizedDefined ==
    (Normalizing /\ Returned)
        => \A f \in Fields :
              /\ Len(result[f]) = 2
              /\ result[f] = IF Len(call.options[f]) = 2
                             THEN call.options[f]
                             ELSE Given(Defaults[f])

Building == call.fn = "buildCharacterPool"

\* lowercase, uppercase, digits, symbols, custom: the selected parts, joined
Concatenation(o) ==
       (IF o.lowercase THEN lowercase ELSE <<>>)
    \o (IF o.uppercase THEN uppercase ELSE <<>>)
    \o (IF o.digits THEN digits ELSE <<>>)
    \o (IF o.symbols THEN symbols ELSE <<>>)
    \o o.custom

\* the position of the first occurrence of char in str
FirstIndex(str, char) ==
    LET occurrences == {k \in 1..Len(str) : str[k] = char}
    IN  CHOOSE k \in occurrences : \A j \in occurrences : k <= j

\* C17: buildCharacterPool returns pairwise distinct characters, those of
\* the selected parts that are not excluded, in the order of their first
\* occurrence in lowercase, uppercase, digits, symbols, custom joined: a
\* repeated character appears once, where it first occurred.
C17_PoolDistinctInOrder ==
    (Building /\ Returned)
        => /\ \A a, b \in 1..Len(result) : a # b => result[a] # result[b]
           /\ Range(result) = ConfiguredPool(Config)
           /\ \A a \in 1..(Len(result) - 1) :
                 FirstIndex(Concatenation(Config), result[a])
                     < FirstIndex(Concatenation(Config), result[a + 1])

C17_Witness ==
    /\ Building /\ Returned
    /\ call.version = "utils"
    /\ Config.lowercase /\ Config.digits
    /\ Config.custom = <<97, 97, 126>>
    /\ Config.exclude = digits
    /\ Len(result) = 27
    /\ result[1] = 97 /\ result[27] = 126

\* C18: every byte getRandomBytes returns comes from crypto.getRandomValues,
\* globalThis.crypto.getRandomValues or Node's crypto.randomBytes; where none
\* of them exists the call that needs bytes fails with the error of
\* getRandomBytes, whether it is getSecureRandomInt or generatePassword, and
\* no other generator is used in their place.
C18_CryptographicSourceOnly ==
    /\ origin \subseteq (Range(Interfaces) \cap Environment)
    /\ Environment = {}
          => /\ origin = {}
             /\ bytesRequested > 0
                   => (Failed /\ error = ErrNoSource /\ result = <<>>)
    /\ error = ErrNoSource => (Failed /\ Environment = {})

C18_Witness ==
    /\ Generating /\ Failed
    /\ Environment = {}
    /\ error = ErrNoSource
    /\ bytesRequested > 0
    /\ result = <<>>

\* C19: the pool estimateEntropyBits counts is the pool generatePassword
\* samples from: on every normalized configuration buildCharacterPool of
\* generator.ts, of utils.ts and of the standalone entropy.ts return the same
\* string, so an estimate that is not 0 is the length times log2 of the
\* size of the generator's pool for that configuration.
C19_PoolsAgree ==
    /\ (Building /\ Returned)
          => /\ result = buildCharacterPool(normalizeOptions(call.options))
             /\ result = buildCharacterPoolUtils(normalizeOptionsUtils(call.options))
             /\ result = buildCharacterPoolStandalone(
                             normalizeOptionsStandalone(call.options))
    /\ (/\ Estimating /\ Returned
        /\ \A f \in Fields : call.options[f] # <<"u">>
        /\ result.kind = "product")
          => /\ result.poolSize = Len(buildCharacterPool(Config))
             /\ result.length = Config.length

C19_Witness ==
    /\ Building /\ Returned
    /\ call.version = "utils"
    /\ Config.excludeSimilar
    /\ Config.exclude = digits
    /\ Config.custom = <<49, 88>>
    /\ Config.uppercase /\ Config.digits
    /\ result = buildCharacterPool(Config)
    /\ Len(result) = 24

\* the estimate of the version called, for other options
EstimateOf(options) ==
    IF call.version = "utils" THEN estimateEntropyBits(options)
                              ELSE estimateEntropyBitsStandalone(options)

\* C20: estimateEntropyBits does not depend on requireEachSelectedClass:
\* configurations that differ in that field only, however it is supplied,
\* get the same estimate.
C20_EstimateIgnoresRequire ==
    (Estimating /\ Returned)
        => \A re \in Supplied({TRUE, FALSE}) :
              EstimateOf([call.options EXCEPT !.requireEachSelectedClass = re])
                  = result

C20_Witness ==
    /\ Estimating /\ Returned
    /\ call.version = "utils"
    /\ call.options.requireEachSelectedClass = Given(TRUE)
    /\ call.options.length = Given(Num(2))
    /\ result = Times(Num(2), 62)
    /\ EstimateOf([call.options EXCEPT !.requireEachSelectedClass = Absent])
           = result

\* the sampler calls that have returned, and the one still in its loop
Completed(k) == Len(samples[k].index) = 1
IndexOf(k) == samples[k].index[1]

\* C21: basic mode (requireEachSelectedClass false) makes exactly length
\* sampler calls, each with max = |pool|; the character at position k of the
\* result is the pool's character at the k-th sampled index, whatever was
\* picked before, and nothing is shuffled.
C21_BasicMode ==
    (Generating /\ ValidConfiguration(Config) /\ ~Config.requireEachSelectedClass)
        => /\ \A k \in 1..Len(samples) :
                 /\ samples[k].max = Num(Cardinality(ConfiguredPool(Config)))
                 /\ samples[k].phase = "basic"
                 /\ samples[k].i = k - 1
           /\ Len(samples) <= Config.length.n
           /\ Returned
                 => /\ Len(samples) = Config.length.n
                    /\ Len(result) = Config.length.n
                    /\ \A k \in 1..Len(samples) :
                          /\ Completed(k)
                          /\ IndexOf(k) \in 0..(Len(pool) - 1)
                          /\ result[k] = pool[IndexOf(k) + 1]

C21_Witness ==
    /\ Generating /\ Returned
    /\ ~Config.requireEachSelectedClass
    /\ Len(result) = 3
    /\ Len(pool) > 2
    /\ IndexOf(1) = 1 /\ IndexOf(2) = 0 /\ IndexOf(3) = 1
    /\ result[1] = result[3] /\ result[1] # result[2]
    /\ bytesRequested >= 3

Constrained ==
    /\ Generating
    /\ ValidConfiguration(Config)
    /\ Config.requireEachSelectedClass
    /\ pc # "start"

\* the k-th of the classes that keep a character, in the order lowercase,
\* uppercase, digits, symbols, custom, and the characters it keeps
KeptChars(o, c) == ClassChars(o, ClassNames[c]) \ ExcludedChars(o)

KthClass(o, k) ==
    LET keeps(c) == KeptChars(o, c) # {}
    IN  SelectSeq(<<1, 2, 3, 4, 5>>, keeps)[k]

KthClassChars(o, k) == KeptChars(o, KthClass(o, k))

\* no index of the shuffle has been sampled yet
BeforeShuffle ==
    /\ phase = "shuffle"
    /\ \A k \in 1..Len(samples) : samples[k].phase = "shuffle" => ~Completed(k)

\* C22: constrained mode runs its three phases in order: one sampler call
\* per class pool, in the order lowercase, uppercase, digits, symbols,
\* custom, with max the size of that class pool; then one call with
\* max = |pool| for each of the remaining length - |classPools| positions;
\* and only then the calls of the shuffle.  When the shuffle starts the
\* buffer has exactly length characters and position k holds a character of
\* the k-th class pool for every k up to |classPools|.
C22_PhasesInOrder ==
    Constrained
        => LET n == Cardinality(RemainingClasses(Config))
               kept == [k \in 1..n |-> KthClassChars(Config, k)]
               all == ConfiguredPool(Config)
           IN  /\ Len(selectedClasses) = n
               /\ \A k \in 1..n : Range(selectedClasses[k]) = kept[k]
               /\ \A k \in 1..Len(samples) :
                     IF k <= n
                     THEN /\ samples[k].phase = "classes"
                          /\ samples[k].i = k - 1
                          /\ samples[k].max = Num(Len(selectedClasses[k]))
                     ELSE IF k <= Config.length.n
                     THEN /\ samples[k].phase = "fill"
                          /\ samples[k].i = k - 1
                          /\ samples[k].max = Num(Len(pool))
                     ELSE samples[k].phase = "shuffle"
               /\ phase = "shuffle" => Len(samples) >= Config.length.n
               /\ BeforeShuffle
                     => /\ Len(password) = Config.length.n
                        /\ \A k \in 1..Config.length.n :
                              /\ Completed(k)
                              /\ password[k] =
                                    IF k <= n
                                    THEN CharAt(selectedClasses[k], IndexOf(k))
                                    ELSE CharAt(pool, IndexOf(k))
                        /\ \A k \in 1..n : password[k] \in kept[k]
                        /\ \A k \in (n + 1)..Config.length.n :
                              password[k] \in all

C22_Witness ==
    /\ Constrained /\ BeforeShuffle
    /\ pc = "sampling"
    /\ Config.length = Num(3)
    /\ Len(selectedClasses) = 2
    /\ Config.digits /\ Config.exclude = digits
    /\ Config.lowercase /\ Config.custom = <<97, 97, 126>>
    /\ password[1] \in Range(lowercase)
    /\ password[2] = 97 /\ IndexOf(2) = 1
    /\ Len(samples) = 4

\* how often char occurs in str, and two strings with the same characters
\* the same number of times
Count(str, char) == Cardinality({k \in 1..Len(str) : str[k] = char})
SameMultiset(a, b) ==
    \A char \in Range(a) \cup Range(b) : Count(a, char) = Count(b, char)

\* seq with the elements at positions a and b (from 0) exchanged
Exchanged(seq, a, b) ==
    [k \in 1..Len(seq) |-> IF k = a + 1 THEN seq[b + 1]
                           ELSE IF k = b + 1 THEN seq[a + 1] ELSE seq[k]]

\* the buffer as the picks of the first two phases filled it
Picked ==
    [k \in 1..Config.length.n |->
        IF k <= Len(selectedClasses)
        THEN CharAt(selectedClasses[k], IndexOf(k))
        ELSE CharAt(pool, IndexOf(k))]

LeastBits(m) ==
    IF m > 2 ^ 30 THEN 31
    ELSE CHOOSE k \in 0..30 : 2 ^ k >= m /\ \A j \in 0..(k - 1) : 2 ^ j < m

LeastBytes(bits) ==
    CHOOSE b \in 0..4 : 8 * b >= bits /\ \A a \in 0..(b - 1) : 8 * a < bits

\* 2^k modulo m, by doubling
RECURSIVE TwoPowMod(_, _)
TwoPowMod(k, m) ==
    IF k = 0 THEN 1 % m
    ELSE LET r == TwoPowMod(k - 1, m)
         IN  IF r >= m - r THEN r - (m - r) ELSE r + r

\* 256^b - (w + 1) for the threshold w; 256^4 is 65536 * 65536
Leftover(b, w) ==
    IF b <= 3 THEN 256 ^ b - (w.hi * 65536 + w.lo + 1)
    ELSE (65535 - w.hi) * 65536 + (65535 - w.lo)

InLoop == pc # "start" /\ max >= 2

\* C24: for every max >= 2 the sampler works with
\* bytesNeeded = ceil(ceil(log2(max)) / 8) and with
\* maxValidValue = floor(256^bytesNeeded / max) * max - 1: maxValidValue + 1
\* is a multiple of max, does not exceed 256^bytesNeeded, and is less than
\* max below it; and 256^bytesNeeded >= max.
C24_Threshold ==
    InLoop
        => /\ bytesNeeded = LeastBytes(LeastBits(max))
           /\ Leftover(bytesNeeded, maxValidValue) >= 0
           /\ Leftover(bytesNeeded, maxValidValue) < max
           /\ Leftover(bytesNeeded, maxValidValue) = TwoPowMod(8 * bytesNeeded, max)
           /\ bytesNeeded <= 3
                 => /\ 256 ^ bytesNeeded >= max
                    /\ maxValidValue.hi * 65536 + maxValidValue.lo
                          = ((256 ^ bytesNeeded) \div max) * max - 1

C24_Witness ==
    /\ Sampling /\ pc = "sampling"
    /\ max = 100
    /\ bytesNeeded = 1
    /\ maxValidValue = Wide(0, 199)

\* the greatest value bytesNeeded bytes are put together to
AllOnes(b) == BytesToInt([k \in 1..b |-> 255], 0, 0)

\* C25: for every max >= 2 fewer than half of the 256^bytesNeeded values
\* are rejected: 256^bytesNeeded - (maxValidValue + 1) < 256^bytesNeeded / 2;
\* and when max divides 256^bytesNeeded no value is rejected.  The values
\* rejected are counted for one byte and bounded by the greatest one above.
C25_RejectedBelowHalf ==
    InLoop
        => /\ bytesNeeded <= 3
                 => 2 * Leftover(bytesNeeded, maxValidValue) < 256 ^ bytesNeeded
           /\ bytesNeeded = 4
                 => Leftover(bytesNeeded, maxValidValue) \div 65536 < 32768
           /\ bytesNeeded = 1
                 => LET rejectedValues ==
                            {v \in 0..255 : ~Accepted(v, maxValidValue)}
                    IN  /\ Cardinality(rejectedValues)
                              = Leftover(bytesNeeded, maxValidValue)
                        /\ Cardinality(rejectedValues) < 128
           /\ TwoPowMod(8 * bytesNeeded, max) = 0
                 => /\ Leftover(bytesNeeded, maxValidValue) = 0
                    /\ Accepted(AllOnes(bytesNeeded), maxValidValue)
                    /\ attempts = 0

C25_Witness ==
    /\ Sampling /\ Returned
    /\ call.source = "fill255"
    /\ max = 256
    /\ bytesNeeded = 1
    /\ result = 255
    /\ attempts = 0

\* C26: the sampler's invalid-argument error cannot come out of
\* generatePassword: every sampler call it makes gets a positive integer
\* max, the size of a class pool that is not empty, the size of the pool,
\* which is not empty, or i + 1 with i >= 1.
C26_SamplerArgumentValid ==
    Generating
        => /\ error # ErrMax
           /\ \A k \in 1..Len(samples) :
                 /\ IsInteger(samples[k].max)
                 /\ samples[k].max.n >= 1
                 /\ CASE samples[k].phase = "classes" ->
                            /\ samples[k].max.n = Len(selectedClasses[samples[k].i + 1])
                            /\ KthClassChars(Config, samples[k].i + 1) # {}
                      [] samples[k].phase \in {"fill", "basic"} ->
                            /\ samples[k].max.n = Len(pool)
                            /\ Range(pool) = ConfiguredPool(Config)
                            /\ ConfiguredPool(Config) # {}
                      [] samples[k].phase = "shuffle" ->
                            /\ samples[k].max.n = samples[k].i + 1
                            /\ samples[k].i >= 1
                      [] OTHER -> FALSE

C26_Witness ==
    /\ Generating /\ Returned
    /\ Config.requireEachSelectedClass
    /\ Config.custom = <<49, 88>> /\ Config.excludeSimilar
    /\ Len(samples) = 5
    /\ \E k \in 1..2 : samples[k].max = Num(1)
    /\ samples[3].max = Num(Len(pool))
    /\ samples[5].max = Num(2)

\* generateWithRequiredClasses has been entered
Assembling ==
    /\ Generating
    /\ Config.requireEachSelectedClass
    /\ phase \in {"classes", "fill", "shuffle"}

\* C27: whenever constrained assembly starts, every class pool handed to
\* the assembler is non-empty and there are at most length of them, so the
\* fill loop runs length - |classPools| >= 0 times and the buffer never
\* holds more than length characters.
C27_ClassPoolsFit ==
    /\ Assembling
          => /\ \A k \in 1..Len(selectedClasses) : Len(selectedClasses[k]) > 0
             /\ Len(selectedClasses) <= Config.length.n
             /\ Len(password) <= Config.length.n
             /\ Cardinality({k \in 1..Len(samples) : samples[k].phase = "fill"})
                   <= Config.length.n - Len(selectedClasses)
             /\ ValidConfiguration(Config)
    /\ (Generating /\ Config.requireEachSelectedClass /\ pc # "start"
             /\ ValidConfiguration(Config))
          => Assembling

C27_Witness ==
    /\ Assembling /\ Returned
    /\ Config.length = Num(2)
    /\ Len(selectedClasses) = 2
    /\ Config.digits /\ Config.exclude = digits
    /\ Len(result) = 2
    /\ \A k \in 1..Len(samples) : samples[k].phase # "fill"

\* C28 as claimed: each class pool built for constrained mode holds exactly
\* the characters of its class that survive excludeSimilar and exclude, as
\* a sequence of pairwise distinct characters, also when custom repeats a
\* character; so each character of the class is the pick for the same
\* number of sampled indices.
C28_ClassPoolsDistinct ==
    Assembling
        => \A k \in 1..Len(selectedClasses) :
              /\ Range(selectedClasses[k]) = KthClassChars(Config, k)
              /\ \A a, b \in 1..Len(selectedClasses[k]) :
                    a # b => selectedClasses[k][a] # selectedClasses[k][b]
              /\ \A c, e \in KthClassChars(Config, k) :
                    Count(selectedClasses[k], c) = Count(selectedClasses[k], e)

\* the sampler call in progress has used up its attempts
OutOfAttempts == Generating /\ attempts = maxAttempts

\* C29: when a sampler call inside generatePassword runs out of attempts,
\* generatePassword fails with the sampler's error: it returns nothing, no
\* partial or shorter password either, asks for no byte after the failing
\* call and does not start the generation again.
C29_ExhaustionIsFatal ==
    /\ []((OutOfAttempts /\ pc # "sampling")
            => /\ Failed
               /\ error = ErrAttempts
               /\ result = <<>>
               /\ ~Completed(Len(samples)))
    /\ []((Generating /\ error = ErrAttempts) => (Failed /\ OutOfAttempts))
    /\ [][OutOfAttempts
            => /\ pc' = "failed"
               /\ error' = ErrAttempts
               /\ bytesRequested' = bytesRequested
               /\ samples' = samples
               /\ password' = password
               /\ result' = result]_vars

C29_Witness ==
    /\ Generating /\ Failed
    /\ error = ErrAttempts
    /\ phase = "shuffle"
    /\ Len(password) = Config.length.n
    /\ Len(password) >= 3
    /\ Len(samples) = Len(password) + 1
    /\ result = <<>>
    /\ bytesRequested = Len(password) + 1000

\* the first check that fails, in the order length below 1, length not an
\* integer, pool empty, more classes than length
FirstFailing(o) ==
    IF o.length.n < 1 THEN ErrLength
    ELSE IF o.length.half THEN ErrInteger
    ELSE IF ConfiguredPool(o) = {} THEN ErrEmptyPool
    ELSE IF /\ o.requireEachSelectedClass
            /\ Cardinality(RemainingClasses(o)) > o.length.n
         THEN ErrClasses
    ELSE NoError

\* C30: the validation checks run in a fixed order and the first that fails
\* gives the error: length below 1, then length not an integer, then empty
\* pool, then too many classes for the length.  So length 0 with an empty
\* pool gives the length error, length 0.5 gives 'at least 1' and not 'must
\* be an integer', and an empty pool with requireEachSelectedClass set
\* gives the empty-pool error.
C30_FirstFailingCheck ==
    (Generating /\ pc # "start")
        => /\ FirstFailing(Config) # NoError
                 => (Failed /\ error = FirstFailing(Config) /\ result = <<>>)
           /\ error \in {ErrLength, ErrInteger, ErrEmptyPool, ErrClasses}
                 => error = FirstFailing(Config)
           /\ (Config.length = Num(0) /\ ConfiguredPool(Config) = {})
                 => error = ErrLength
           /\ Config.length = Half(0) => error = ErrLength
           /\ (/\ ValidLength(Config)
               /\ ConfiguredPool(Config) = {}
               /\ Config.requireEachSelectedClass)
                 => error = ErrEmptyPool

C30_Witness ==
    /\ Generating /\ Failed
    /\ Config.length = Half(0)
    /\ ConfiguredPool(Config) = {}
    /\ Config.requireEachSelectedClass
    /\ Config.lowercase /\ Config.exclude = lowercase \o <<126>>
    /\ error = ErrLength
    /\ bytesRequested = 0

====
